---- MODULE Spec2Model ----
(***************************************************************************)
(* A model of aiocmd.PromptToolkitCmd (src/aiocmd/aiocmd.py): the command  *)
(* loop run() / _run_prompt_forever(), the task that executes one command  *)
(* (_run_single_command), the SIGINT callback (_sigint_handler), and the   *)
(* reflection helpers (_get_command, _get_command_args, _get_command_usage,*)
(* command_list, do_help).                                                 *)
(*                                                                         *)
(* One asyncio event loop runs everything, so every action below is one    *)
(* callback of that loop: a coroutine runs from one suspension point to    *)
(* the next without interleaving.                                          *)
(***************************************************************************)
EXTENDS Integers, Sequences, FiniteSets, TLC

VARIABLES
    aliases,          \* class attribute `aliases` (alias name -> target name)
    _ignore_sigint,   \* self._ignore_sigint
    platform,         \* sys.platform
    pc,               \* where run() is: "init", "prompt", "await", "returned", "raised"
    run_exc,          \* the exception run() raised to its caller ("" when none)
    tasks,            \* every task asyncio.ensure_future() has created, in creation order
    _currently_running_task, \* 0 for None, else an index of tasks
    sigint_registered,\* whether the loop holds a SIGINT handler (add_/remove_signal_handler)
    close_calls,      \* how many times _on_close() has run
    stdout,           \* every line print() has written, in order
    submitted,        \* the lines the prompt has returned so far, in order
    idle_sigint_at,   \* history: how many tasks existed when _sigint_handler last
                      \* ran with nothing unfinished to cancel; -1 if it never did
    current_buffer,   \* the text in the prompt's input buffer, a line (<<>> when empty)
    line_cleared      \* history: whether the c-c key binding has cleared typed text
                      \* since the prompt last returned a line

vars == <<aliases, _ignore_sigint, platform, pc, run_exc, tasks, _currently_running_task,
          sigint_registered, close_calls, stdout, submitted, idle_sigint_at,
          current_buffer, line_cleared>>

(***************************************************************************)
(* Bounds of the model.                                                    *)
(***************************************************************************)
\* how many lines the prompt returns in one run of the loop
MaxLines == 2

(***************************************************************************)
(* The class under the loop.  PromptToolkitCmd is a base class: commands   *)
(* are the do_<action> methods of a subclass.  The methods below are the   *)
(* three the base class defines (do_help, do_quit, do_history) and two of  *)
(* a subclass: do_add(x, y, z=0), synchronous, and do_sleep(sleep_time=1), *)
(* a coroutine function.                                                   *)
(***************************************************************************)
ATTR_START == "do_"

NoDefault == "<empty>"

Param(n, d) == [name |-> n, default |-> d]

\* The methods of the object whose name starts with ATTR_START: their
\* parameters in declaration order (inspect.signature of the bound method),
\* whether they are coroutine functions, and their docstrings.
Methods ==
    [ do_add     |-> [params |-> <<Param("x", NoDefault), Param("y", NoDefault), Param("z", "0")>>,
                      coroutine |-> FALSE, doc |-> ""],
      do_help    |-> [params |-> <<>>, coroutine |-> FALSE, doc |-> "Print commands usage"],
      do_history |-> [params |-> <<>>, coroutine |-> FALSE, doc |-> "Print commands history"],
      do_quit    |-> [params |-> <<>>, coroutine |-> FALSE, doc |-> "Exit the prompt"],
      do_sleep   |-> [params |-> <<Param("sleep_time", "1")>>,
                      coroutine |-> TRUE, doc |-> ""] ]

\* class attribute aliases of the base class
BaseAliases == [a \in {"?", "exit"} |-> IF a = "?" THEN "help" ELSE "quit"]

\* a subclass adding an alias of its own command
PlusAliases == [a \in {"?", "exit", "plus"} |->
                   IF a = "?" THEN "help" ELSE IF a = "exit" THEN "quit" ELSE "add"]

\* a subclass whose alias zz names a command that does not exist
DanglingAliases == [a \in {"?", "exit", "plus", "zz"} |->
                   IF a = "?" THEN "help" ELSE IF a = "exit" THEN "quit"
                   ELSE IF a = "plus" THEN "add" ELSE "nothing"]

AliasTables == {BaseAliases, PlusAliases, DanglingAliases}

(***************************************************************************)
(* Python's order on str, on the names the model uses (code point order).  *)
(***************************************************************************)
StrOrder == <<"?", "add", "exit", "help", "history", "nothing", "nope", "plus",
              "quit", "sleep", "zz">>

Rank(s) == CHOOSE i \in 1..Len(StrOrder) : StrOrder[i] = s

\* sorted(S) / list.sort() over a set of distinct names
RECURSIVE Sorted(_)
Sorted(S) ==
    IF S = {} THEN <<>>
    ELSE LET m == CHOOSE x \in S : \A y \in S : Rank(x) <= Rank(y)
         IN  <<m>> \o Sorted(S \ {m})

\* sep.join(seq)
RECURSIVE Join(_, _)
Join(sep, seq) ==
    IF seq = <<>> THEN ""
    ELSE IF Len(seq) = 1 THEN seq[1]
    ELSE seq[1] \o sep \o Join(sep, Tail(seq))

\* max(list of ints); the caller guarantees the list is not empty
RECURSIVE MaxOf(_)
MaxOf(seq) ==
    IF Len(seq) = 1 THEN seq[1]
    ELSE LET m == MaxOf(Tail(seq)) IN IF seq[1] >= m THEN seq[1] ELSE m

\* "%-Ns" % s : s padded with spaces on the right to width n
RECURSIVE LJust(_, _)
LJust(s, n) == IF Len(s) >= n THEN s ELSE LJust(s \o " ", n)

\* "=" * n
RECURSIVE Repeat(_, _)
Repeat(s, n) == IF n <= 0 THEN "" ELSE s \o Repeat(s, n - 1)

(***************************************************************************)
(* shlex.split(result).  A line is a sequence of characters; a character   *)
(* is a space, a double quote, or a run of ordinary characters written as  *)
(* one string ("add").  Outside quotes a space ends the token being built; *)
(* a quote opens or closes a quoted part (which starts a token even when   *)
(* it is empty); a line that ends inside quotes raises ValueError.         *)
(***************************************************************************)
SPACE == " "
QUOTE == "\""

RECURSIVE shlex_scan(_, _, _, _, _, _)
shlex_scan(line, i, inq, started, cur, acc) ==
    IF i > Len(line)
    THEN IF inq THEN [ok |-> FALSE, tokens |-> <<>>]
         ELSE [ok |-> TRUE, tokens |-> IF started THEN Append(acc, cur) ELSE acc]
    ELSE LET c == line[i] IN
         IF c = QUOTE THEN shlex_scan(line, i + 1, ~inq, TRUE, cur, acc)
         ELSE IF c = SPACE /\ ~inq
              THEN IF started THEN shlex_scan(line, i + 1, inq, FALSE, "", Append(acc, cur))
                   ELSE shlex_scan(line, i + 1, inq, FALSE, "", acc)
         ELSE shlex_scan(line, i + 1, inq, TRUE, cur \o c, acc)

shlex_split(line) == shlex_scan(line, 1, FALSE, FALSE, "", <<>>)

\* the text of a line as one string
LineText(line) == Join("", line)

(***************************************************************************)
(* Reflection: command discovery, alias resolution, arity, usage.          *)
(* A lookup that fails (getattr raising AttributeError) is the record      *)
(* [ok |-> FALSE]; the exception text is AttributeErrorText.               *)
(***************************************************************************)
\* dir(self) lists attribute names in sorted order
actual_command_list ==
    Sorted({c \in {"add", "help", "history", "quit", "sleep"} :
              (ATTR_START \o c) \in DOMAIN Methods})

\* command_list without the alias names
command_list_no_aliases(al) == actual_command_list

\* actual_command_list + list(self.aliases.keys())
command_list(al) == actual_command_list \o Sorted(DOMAIN al)

InList(x, seq) == \E i \in 1..Len(seq) : seq[i] = x

\* the attribute name _get_command looks up: the alias table is consulted once
ResolvedAttr(al, command) ==
    ATTR_START \o (IF command \in DOMAIN al THEN al[command] ELSE command)

\* getattr(self, self.ATTR_START + command)
_get_command(al, command) ==
    LET attr == ResolvedAttr(al, command) IN
    IF attr \in DOMAIN Methods THEN [ok |-> TRUE, attr |-> attr]
    ELSE [ok |-> FALSE, attr |-> attr]

AttributeErrorText(attr) == "'Cmd' object has no attribute '" \o attr \o "'"

\* _get_command_args counting every parameter as required
_get_command_args_all_required(al, command) ==
    LET f == _get_command(al, command) IN
    IF ~f.ok THEN [ok |-> FALSE, attr |-> f.attr, args |-> <<>>, kwargs |-> <<>>]
    ELSE [ok |-> TRUE, attr |-> f.attr, args |-> Methods[f.attr].params, kwargs |-> <<>>]

\* the parameters without a default, and those with one, in declaration order
_get_command_args(al, command) ==
    LET f == _get_command(al, command) IN
    IF ~f.ok THEN [ok |-> FALSE, attr |-> f.attr, args |-> <<>>, kwargs |-> <<>>]
    ELSE LET ps == Methods[f.attr].params
             IsReq(p) == p.default = NoDefault
             IsOpt(p) == p.default # NoDefault
         IN  [ok |-> TRUE, attr |-> f.attr,
              args |-> SelectSeq(ps, IsReq), kwargs |-> SelectSeq(ps, IsOpt)]

\* str(param) of an inspect.Parameter
ParamStr(p) == IF p.default = NoDefault THEN p.name ELSE p.name \o "=" \o p.default

\* "{} {} {}".format(a, b, c).strip(), for a without surrounding blanks
FormatStrip(a, b, c) ==
    IF c # "" THEN a \o " " \o b \o " " \o c
    ELSE IF b # "" THEN a \o " " \o b
    ELSE a

\* _get_command_usage without the alias lookup of its first two lines
_get_command_usage_unresolved(al, command, args, kwargs) ==
    LET names == <<command>> \o Sorted({a \in DOMAIN al : al[a] = command})
    IN  FormatStrip(Join("|", names),
                    Join(" ", [i \in 1..Len(args) |-> "<" \o ParamStr(args[i]) \o ">"]),
                    Join(" ", [i \in 1..Len(kwargs) |-> "[" \o ParamStr(kwargs[i]) \o "]"]))

_get_command_usage(al, command, args, kwargs) ==
    LET canon == IF command \in DOMAIN al THEN al[command] ELSE command
        names == <<canon>> \o Sorted({a \in DOMAIN al : al[a] = canon})
    IN  FormatStrip(Join("|", names),
                    Join(" ", [i \in 1..Len(args) |-> "<" \o ParamStr(args[i]) \o ">"]),
                    Join(" ", [i \in 1..Len(kwargs) |-> "[" \o ParamStr(kwargs[i]) \o "]"]))

(***************************************************************************)
(* The command handlers.  A call gives what the handler printed and how    *)
(* its first run ended: "return", "raise" (an Exception, with its text),   *)
(* "exit" (ExitPromptException) or "await" (a coroutine that suspended).   *)
(***************************************************************************)
Digits == <<"0", "1", "2", "3", "4", "5", "6", "7", "8", "9", "10", "11", "12">>

IsInt(s) == \E i \in 1..Len(Digits) : Digits[i] = s

\* int(s) and str(n)
IntOf(s) == (CHOOSE i \in 1..Len(Digits) : Digits[i] = s) - 1
StrOf(n) == Digits[n + 1]

ValueErrorText(s) == "invalid literal for int() with base 10: '" \o s \o "'"

Outcome(printed, how, text) == [printed |-> printed, how |-> how, text |-> text]

\* get_usage(c) inside do_help
get_usage(al, c) ==
    LET ga == _get_command_args(al, c) IN
    [ok |-> ga.ok, attr |-> ga.attr,
     text |-> IF ga.ok THEN _get_command_usage(al, c, ga.args, ga.kwargs) ELSE ""]

doc_header == "Commands:"

do_help(al) ==
    LET header == <<"", doc_header, Repeat("=", Len(doc_header))>>
        cl     == command_list(al)
        us     == [i \in 1..Len(cl) |-> get_usage(al, cl[i])]
        bad    == {i \in 1..Len(cl) : ~us[i].ok}
    IN  IF bad # {}
        THEN LET first == CHOOSE i \in bad : \A j \in bad : i <= j
             IN  Outcome(header, "raise", AttributeErrorText(us[first].attr))
        ELSE LET max_usage_len == MaxOf([i \in 1..Len(cl) |-> Len(us[i].text)])
                 cs == Sorted({actual_command_list[i] : i \in 1..Len(actual_command_list)})
                 row(c) == LJust(get_usage(al, c).text, max_usage_len + 2)
                             \o Methods[_get_command(al, c).attr].doc
             IN  Outcome(header \o [i \in 1..Len(cs) |-> row(cs[i])], "return", "")

do_quit == Outcome(<<>>, "exit", "")

\* the session's history: the lines accepted so far, oldest first; the
\* prompt library stores a line unless it is empty or repeats the last one
RECURSIVE HistoryStrings(_)
HistoryStrings(lines) ==
    IF lines = <<>> THEN <<>>
    ELSE LET front == HistoryStrings(SubSeq(lines, 1, Len(lines) - 1))
             text  == LineText(lines[Len(lines)])
         IN  IF text = "" \/ (front # <<>> /\ front[Len(front)] = text)
             THEN front ELSE Append(front, text)

do_history(lines) == Outcome(<<Join("\n", HistoryStrings(lines))>>, "return", "")

\* def do_add(self, x, y, z=0): print(int(x) + int(y) + int(z))
do_add(args) ==
    LET vals == IF Len(args) = 2 THEN Append(args, "0") ELSE args
        bad  == {i \in 1..3 : ~IsInt(vals[i])}
    IN  IF bad # {}
        THEN Outcome(<<>>, "raise",
                     ValueErrorText(vals[CHOOSE i \in bad : \A j \in bad : i <= j]))
        ELSE Outcome(<<StrOf(IntOf(vals[1]) + IntOf(vals[2]) + IntOf(vals[3]))>>, "return", "")

\* async def do_sleep(self, sleep_time=1): await asyncio.sleep(int(sleep_time))
do_sleep(args) ==
    LET t == IF args = <<>> THEN "1" ELSE args[1]
    IN  IF ~IsInt(t) THEN Outcome(<<>>, "raise", ValueErrorText(t))
        ELSE Outcome(<<>>, "await", "")

\* com_func(*args)
Call(al, attr, args, lines) ==
    CASE attr = "do_help"    -> do_help(al)
      [] attr = "do_quit"    -> do_quit
      [] attr = "do_history" -> do_history(lines)
      [] attr = "do_add"     -> do_add(args)
      [] attr = "do_sleep"   -> do_sleep(args)

(***************************************************************************)
(* Tasks.  state is "pending" (created, its coroutine not started),        *)
(* "suspended" (inside an awaiting handler), "done" (returned or raised;   *)
(* exc names the exception, "" for none) or "cancelled".  must_cancel is   *)
(* the pending cancellation request of Task.cancel().  The other fields    *)
(* record what happened: the line the task came from, the handler that was *)
(* called and its arguments, what the task printed, and cancelled_in, the   *)
(* state the task was in when cancel() was first requested on it ("" when  *)
(* it never was while the task was unfinished).                            *)
(***************************************************************************)
NewTask(command, args, line) ==
    [command |-> command, args |-> args, line |-> line, state |-> "pending",
     must_cancel |-> FALSE, exc |-> "", handler |-> "", called_args |-> <<>>,
     printed |-> <<>>, cancelled_in |-> ""]

Finished(t) == t.state \in {"done", "cancelled"}

\* FirstStep without `except Exception`: the handler's exception leaves the task
FirstStepUncaught(t, al, lines) ==
    LET ga == _get_command_args(al, t.command) IN
    IF ~ga.ok
    THEN [t EXCEPT !.state = "done", !.exc = "AttributeError"]
    ELSE IF Len(t.args) < Len(ga.args) \/ Len(t.args) > Len(ga.args) + Len(ga.kwargs)
    THEN [t EXCEPT !.state = "done",
                   !.printed = <<"Bad command args. Usage: "
                                   \o _get_command_usage(al, t.command, ga.args, ga.kwargs)>>]
    ELSE LET com_func == _get_command(al, t.command).attr
             r  == Call(al, com_func, t.args, lines)
             t1 == [t EXCEPT !.handler = com_func, !.called_args = t.args,
                             !.printed = r.printed]
         IN  CASE r.how = "return" -> [t1 EXCEPT !.state = "done"]
               [] r.how = "exit"   -> [t1 EXCEPT !.state = "done",
                                                 !.exc = "ExitPromptException"]
               [] r.how = "raise"  -> [t1 EXCEPT !.state = "done", !.exc = "Exception"]
               [] r.how = "await"  -> [t1 EXCEPT !.state = "suspended"]

\* the first step of a task of _run_single_command(command, args)
FirstStep(t, al, lines) ==
    LET ga == _get_command_args(al, t.command) IN
    IF ~ga.ok
    THEN [t EXCEPT !.state = "done", !.exc = "AttributeError"]
    ELSE IF Len(t.args) < Len(ga.args) \/ Len(t.args) > Len(ga.args) + Len(ga.kwargs)
    THEN [t EXCEPT !.state = "done",
                   !.printed = <<"Bad command args. Usage: "
                                   \o _get_command_usage(al, t.command, ga.args, ga.kwargs)>>]
    ELSE LET com_func == _get_command(al, t.command).attr
             r  == Call(al, com_func, t.args, lines)
             t1 == [t EXCEPT !.handler = com_func, !.called_args = t.args,
                             !.printed = r.printed]
         IN  CASE r.how = "return" -> [t1 EXCEPT !.state = "done"]
               [] r.how = "exit"   -> [t1 EXCEPT !.state = "done",
                                                 !.exc = "ExitPromptException"]
               [] r.how = "raise"  -> [t1 EXCEPT !.state = "done",
                                                 !.printed = Append(r.printed,
                                                     "Command failed: " \o " " \o r.text)]
               [] r.how = "await"  -> [t1 EXCEPT !.state = "suspended"]

\* StepTask running a synchronous handler behind an await, so that the task
\* is suspended while the handler's result is on its way
StepTaskSyncAwaited(t, al, lines) ==
    IF t.must_cancel THEN [t EXCEPT !.state = "cancelled", !.must_cancel = FALSE]
    ELSE IF t.state = "pending"
    THEN IF FirstStep(t, al, lines).handler # "" /\ FirstStep(t, al, lines).state = "done"
         THEN [FirstStep(t, al, lines) EXCEPT !.state = "suspended"]
         ELSE FirstStep(t, al, lines)
    ELSE [t EXCEPT !.state = "done"]

\* one step of the task: a requested cancellation is thrown into the
\* coroutine (before it starts, or at the await of the handler, where
\* _run_single_command re-raises it); otherwise the coroutine runs on
StepTask(t, al, lines) ==
    IF t.must_cancel THEN [t EXCEPT !.state = "cancelled", !.must_cancel = FALSE]
    ELSE IF t.state = "pending" THEN FirstStep(t, al, lines)
    ELSE [t EXCEPT !.state = "done"]

\* Cancel without the test for a finished task
CancelAlways(t) ==
    [t EXCEPT !.must_cancel = TRUE,
              !.cancelled_in = IF t.cancelled_in = "" THEN t.state ELSE t.cancelled_in]

\* Task.cancel(): nothing on a finished task, else the request is recorded
Cancel(t) ==
    IF Finished(t) THEN t
    ELSE [t EXCEPT !.must_cancel = TRUE,
                   !.cancelled_in = IF t.cancelled_in = "" THEN t.state ELSE t.cancelled_in]

(***************************************************************************)
(* The lines the prompt may return.                                        *)
(***************************************************************************)
Words(ws) == [i \in 1..(2 * Len(ws) - 1) |-> IF i % 2 = 1 THEN ws[(i + 1) \div 2] ELSE SPACE]

Lines ==
    { <<>>,                                   \* Enter on an empty buffer
      <<SPACE>>,                              \* blanks only
      <<QUOTE, "add">>,                       \* an unclosed quote
      Words(<<"quit">>), Words(<<"exit">>), Words(<<"quit", "1">>),
      Words(<<"help">>),
      Words(<<"add", "1">>),
      <<"add", SPACE, QUOTE, "1", QUOTE, SPACE, "2">>,
      Words(<<"add", "1", "2", "3">>), Words(<<"add", "1", "2", "3", "4">>),
      Words(<<"add", "a", "2">>),
      Words(<<"plus", "1", "2">>), Words(<<"plus", "1">>),
      Words(<<"sleep">>), Words(<<"sleep", "a">>),
      Words(<<"history">>),
      Words(<<"zz">>), Words(<<"nope">>) }

(***************************************************************************)
(* run() and _run_prompt_forever().                                        *)
(***************************************************************************)
Init ==
    /\ aliases \in AliasTables
    /\ _ignore_sigint \in BOOLEAN
    /\ platform \in {"linux", "win32"}
    /\ pc = "init"
    /\ run_exc = ""
    /\ tasks = <<>>
    /\ _currently_running_task = 0
    /\ sigint_registered = FALSE
    /\ close_calls = 0
    /\ stdout = <<>>
    /\ submitted = <<>>
    /\ idle_sigint_at = -1
    /\ current_buffer = <<>>
    /\ line_cleared = FALSE

Config == <<aliases, _ignore_sigint, platform>>

\* run() up to the first prompt: the SIGINT handler is registered, the
\* session is created and _run_prompt_forever() awaits the first line
run ==
    /\ pc = "init"
    /\ sigint_registered' = (_ignore_sigint /\ platform # "win32")
    /\ pc' = "prompt"
    /\ UNCHANGED <<Config, run_exc, tasks, _currently_running_task, close_calls, stdout, submitted,
                   idle_sigint_at, current_buffer, line_cleared>>

\* run() when PromptSession(...) raises (no usable terminal behind stdin):
\* that statement follows the registration of the SIGINT handler and
\* precedes the try, so the finally block is not entered
run_session_fails ==
    /\ pc = "init"
    /\ sigint_registered' = (_ignore_sigint /\ platform # "win32")
    /\ pc' = "raised"
    /\ run_exc' = "PromptSessionError"
    /\ UNCHANGED <<Config, tasks, _currently_running_task, close_calls, stdout, submitted,
                   idle_sigint_at, current_buffer, line_cleared>>

\* the finally block of run(), entered when _run_prompt_forever() has
\* returned (exc = "") or raised exc
Finally(exc) ==
    /\ sigint_registered' =
          IF _ignore_sigint /\ platform # "win32" THEN FALSE ELSE sigint_registered
    /\ close_calls' = close_calls + 1
    /\ pc' = IF exc = "" THEN "returned" ELSE "raised"
    /\ run_exc' = exc

\* the loop goes round to `await self.session.prompt_async(...)`
Continue ==
    /\ pc' = "prompt"
    /\ UNCHANGED <<run_exc, sigint_registered, close_calls>>

\* Dispatch filling the slot only while it is empty
DispatchKeepsSlot(args) ==
    /\ tasks' = Append(tasks, NewTask(args[1], Tail(args), Len(submitted) + 1))
    /\ _currently_running_task' = IF _currently_running_task = 0 THEN 1 ELSE _currently_running_task
    /\ pc' = "await"
    /\ UNCHANGED <<run_exc, sigint_registered, close_calls, stdout>>

\* asyncio.ensure_future(self._run_single_command(args[0], args[1:])) and
\* the await of it
Dispatch(args) ==
    /\ tasks' = Append(tasks, NewTask(args[1], Tail(args), Len(submitted) + 1))
    /\ _currently_running_task' = Len(tasks) + 1
    /\ pc' = "await"
    /\ UNCHANGED <<run_exc, sigint_registered, close_calls, stdout>>

\* prompt_line reading the next line while the current command still runs
prompt_line_while_awaiting(line) ==
    /\ pc \in {"prompt", "await"}
    /\ Len(submitted) < MaxLines
    /\ submitted' = Append(submitted, line)
    /\ current_buffer' = <<>>
    /\ line_cleared' = FALSE
    /\ UNCHANGED <<Config, idle_sigint_at>>
    /\ LET sp == shlex_split(line) IN
       IF sp.ok /\ sp.tokens # <<>> /\ InList(sp.tokens[1], command_list(aliases))
       THEN Dispatch(sp.tokens)
       ELSE Continue /\ UNCHANGED <<tasks, _currently_running_task, stdout>>

\* prompt_async() returns a line: the body of the while loop down to its
\* next await
prompt_line(line) ==
    /\ pc = "prompt"
    /\ current_buffer = line
    /\ Len(submitted) < MaxLines
    /\ submitted' = Append(submitted, line)
    /\ current_buffer' = <<>>
    /\ line_cleared' = FALSE
    /\ UNCHANGED <<Config, idle_sigint_at>>
    /\ IF line = <<>>
       THEN Continue /\ UNCHANGED <<tasks, _currently_running_task, stdout>>
       ELSE LET sp == shlex_split(line) IN
            IF ~sp.ok
            THEN Finally("ValueError") /\ UNCHANGED <<tasks, _currently_running_task, stdout>>
            ELSE IF sp.tokens = <<>>
            THEN Finally("IndexError") /\ UNCHANGED <<tasks, _currently_running_task, stdout>>
            ELSE IF InList(sp.tokens[1], command_list(aliases))
            THEN Dispatch(sp.tokens)
            ELSE /\ stdout' = Append(stdout, "Command " \o sp.tokens[1] \o " not found!")
                 /\ Continue
                 /\ UNCHANGED <<tasks, _currently_running_task>>

\* prompt_eof without `except EOFError`
prompt_eof_uncaught ==
    /\ pc = "prompt"
    /\ current_buffer = <<>>
    /\ Finally("EOFError")
    /\ UNCHANGED <<Config, tasks, _currently_running_task, stdout, submitted, idle_sigint_at,
                   current_buffer, line_cleared>>

\* prompt_async() raises EOFError: the loop returns
prompt_eof ==
    /\ pc = "prompt"
    /\ current_buffer = <<>>
    /\ Finally("")
    /\ UNCHANGED <<Config, tasks, _currently_running_task, stdout, submitted, idle_sigint_at,
                   current_buffer, line_cleared>>

\* what a step of a task printed: the lines it added to its record
NewOutput(before, after) ==
    SubSeq(after.printed, Len(before.printed) + 1, Len(after.printed))

\* the user types text into the empty buffer of the prompt
key_typed(text) ==
    /\ pc = "prompt"
    /\ Len(submitted) < MaxLines
    /\ current_buffer = <<>>
    /\ text # <<>>
    /\ current_buffer' = text
    /\ UNCHANGED <<Config, pc, run_exc, tasks, _currently_running_task, sigint_registered,
                   close_calls, stdout, submitted, idle_sigint_at, line_cleared>>

\* _interrupt_handler raising KeyboardInterrupt out of the prompt
_interrupt_handler_aborts ==
    /\ pc = "prompt"
    /\ current_buffer' = <<>>
    /\ line_cleared' = (line_cleared \/ current_buffer # <<>>)
    /\ Finally("KeyboardInterrupt")
    /\ UNCHANGED <<Config, tasks, _currently_running_task, stdout, submitted, idle_sigint_at>>

\* the c-c key binding of the prompt: event.cli.current_buffer.text = ""
_interrupt_handler ==
    /\ pc = "prompt"
    /\ current_buffer' = <<>>
    /\ line_cleared' = (line_cleared \/ current_buffer # <<>>)
    /\ UNCHANGED <<Config, pc, run_exc, tasks, _currently_running_task, sigint_registered,
                   close_calls, stdout, submitted, idle_sigint_at>>

\* the event loop runs one step of task i
_run_single_command(i) ==
    /\ i \in 1..Len(tasks)
    /\ ~Finished(tasks[i])
    /\ tasks' = [tasks EXCEPT ![i] = StepTask(tasks[i], aliases, submitted)]
    /\ stdout' = stdout \o NewOutput(tasks[i], tasks'[i])
    /\ UNCHANGED <<Config, pc, run_exc, _currently_running_task, sigint_registered,
                   close_calls, submitted, idle_sigint_at,
                   current_buffer, line_cleared>>

\* await_task without the await: the loop goes round while the task runs
await_task_nowait ==
    /\ pc = "await"
    /\ Continue
    /\ UNCHANGED <<Config, tasks, _currently_running_task, stdout, submitted, idle_sigint_at,
                   current_buffer, line_cleared>>

\* await_task without `except asyncio.CancelledError`
await_task_cancel_escapes ==
    /\ pc = "await"
    /\ Finished(tasks[_currently_running_task])
    /\ IF tasks[_currently_running_task].state = "cancelled" THEN Finally("CancelledError")
       ELSE IF tasks[_currently_running_task].exc = "ExitPromptException" THEN Finally("")
       ELSE IF tasks[_currently_running_task].exc # ""
       THEN Finally(tasks[_currently_running_task].exc)
       ELSE Continue
    /\ UNCHANGED <<Config, tasks, _currently_running_task, stdout, submitted, idle_sigint_at,
                   current_buffer, line_cleared>>

\* await_task without `except ExitPromptException`
await_task_exit_escapes ==
    /\ pc = "await"
    /\ Finished(tasks[_currently_running_task])
    /\ IF tasks[_currently_running_task].state = "cancelled"
       THEN stdout' = Append(stdout, "") /\ Continue
       ELSE IF tasks[_currently_running_task].exc # ""
       THEN Finally(tasks[_currently_running_task].exc) /\ UNCHANGED stdout
       ELSE Continue /\ UNCHANGED stdout
    /\ UNCHANGED <<Config, tasks, _currently_running_task, submitted, idle_sigint_at,
                   current_buffer, line_cleared>>

\* await_task returning from the loop on a cancellation as on the exit signal
await_task_cancel_returns ==
    /\ pc = "await"
    /\ Finished(tasks[_currently_running_task])
    /\ IF tasks[_currently_running_task].state = "cancelled" THEN Finally("")
       ELSE IF tasks[_currently_running_task].exc = "ExitPromptException" THEN Finally("")
       ELSE IF tasks[_currently_running_task].exc # ""
       THEN Finally(tasks[_currently_running_task].exc)
       ELSE Continue
    /\ UNCHANGED <<Config, tasks, _currently_running_task, stdout, submitted, idle_sigint_at,
                   current_buffer, line_cleared>>

\* `await self._currently_running_task` resumes once that task is finished
await_task ==
    /\ pc = "await"
    /\ Finished(tasks[_currently_running_task])
    /\ LET t == tasks[_currently_running_task] IN
       IF t.state = "cancelled"
       THEN /\ stdout' = Append(stdout, "")
            /\ Continue
       ELSE IF t.exc = "ExitPromptException"
       THEN Finally("") /\ UNCHANGED stdout
       ELSE IF t.exc # ""
       THEN Finally(t.exc) /\ UNCHANGED stdout
       ELSE Continue /\ UNCHANGED stdout
    /\ UNCHANGED <<Config, tasks, _currently_running_task, submitted, idle_sigint_at,
                   current_buffer, line_cleared>>

\* SIGINT arrives and the loop calls the registered handler
_sigint_handler ==
    /\ sigint_registered
    /\ IF _currently_running_task # 0
       THEN tasks' = [tasks EXCEPT ![_currently_running_task] =
                                        Cancel(tasks[_currently_running_task])]
       ELSE UNCHANGED tasks
    /\ idle_sigint_at' = IF \A i \in 1..Len(tasks) : Finished(tasks[i])
                         THEN Len(tasks) ELSE idle_sigint_at
    /\ UNCHANGED <<Config, pc, run_exc, _currently_running_task, sigint_registered, close_calls,
                   stdout, submitted, current_buffer, line_cleared>>

Next ==
    \/ run
    \/ run_session_fails
    \/ \E text \in Lines : key_typed(text)
    \/ _interrupt_handler
    \/ \E line \in Lines : prompt_line(line)
    \/ prompt_eof
    \/ \E i \in 1..Len(tasks) : _run_single_command(i)
    \/ await_task
    \/ _sigint_handler

Spec == Init /\ [][Next]_vars

(***************************************************************************)
(* Properties.                                                             *)
(***************************************************************************)
TaskIds == 1..Len(tasks)

Unfinished == {i \in TaskIds : ~Finished(tasks[i])}

\* C1: at most one command is executing at any instant, and the loop is
\* back at the prompt (reading the next line) only when every task it has
\* started is finished: completed, failed or cancelled.
C1_SingleRunningTask ==
    /\ Cardinality(Unfinished) <= 1
    /\ pc = "prompt" => Unfinished = {}

\* C1 witness: a second command is inside its handler after a first one has run
C1_Witness ==
    \E i, j \in TaskIds :
        /\ i < j
        /\ tasks[i].handler # "" /\ Finished(tasks[i])
        /\ tasks[j].state = "suspended"

\* C2: the loop stops only on end-of-input or the exit signal, both of
\* which make run() return; no other failure while processing a line ends
\* the loop, so run() never raises once it has read a line.
C2_OnlyExitOrEofStopsLoop == ~(pc = "raised" /\ submitted # <<>>)

\* C4 (as claimed): whenever the loop waits for an input line the Running
\* Task slot is empty.
C4_SlotEmptyAtPrompt == pc = "prompt" => _currently_running_task = 0

\* C4 (amended): the slot is set when a command is dispatched and never
\* cleared: it always names the task dispatched last, and whenever the loop
\* waits for an input line that task, if any, is finished.
C4_SlotHoldsLastTask ==
    /\ _currently_running_task = Len(tasks)
    /\ pc = "prompt" /\ _currently_running_task # 0 => Finished(tasks[_currently_running_task])
    /\ pc = "await" => _currently_running_task # 0

\* C4 witness: the loop waits for a line while the slot still holds a cancelled task
C4_Witness ==
    /\ pc = "prompt"
    /\ _currently_running_task # 0
    /\ tasks[_currently_running_task].state = "cancelled"

\* the lines the session held when task t was dispatched
LinesAt(t) == SubSeq(submitted, 1, t.line)

\* the loop leaves its await of the running task
LoopResumes == pc = "await" /\ pc' # "await"

\* the loop goes on to the next prompt, printing nothing and tearing nothing down
LoopGoesOn ==
    /\ pc' = "prompt"
    /\ UNCHANGED <<run_exc, sigint_registered, close_calls, stdout>>

\* the same, whatever is printed
LoopGoesOnAfterMessage ==
    /\ pc' = "prompt"
    /\ UNCHANGED <<run_exc, sigint_registered, close_calls>>

\* the same, after one blank line
LoopGoesOnAfterBlank ==
    /\ pc' = "prompt"
    /\ stdout' = Append(stdout, "")
    /\ UNCHANGED <<run_exc, sigint_registered, close_calls>>

C3_Cancelled ==
    \A i \in TaskIds :
        tasks[i].cancelled_in = "suspended" =>
            /\ ~Finished(tasks[i]) => tasks[i].must_cancel
            /\ Finished(tasks[i]) => tasks[i].state = "cancelled"
            /\ \A j \in TaskIds :
                  j > i /\ Finished(tasks[j]) /\ tasks[j].cancelled_in = ""
                     => tasks[j].state = "done"

C3_LoopResumes ==
    LoopResumes /\ tasks[_currently_running_task].cancelled_in = "suspended" => LoopGoesOnAfterBlank

\* C3: an interrupt that fires while an asynchronous command is running
\* cancels that command; the loop then prints one blank line, does not
\* terminate, and is back at the prompt, and a later line is dispatched and
\* runs to its own end.
C3_InterruptCancelsRunning == []C3_Cancelled /\ [][C3_LoopResumes]_vars

\* C3 witness: a command ran after an asynchronous one was interrupted in mid-run
C3_Witness ==
    \E i, j \in TaskIds :
        /\ i < j
        /\ tasks[i].handler = "do_sleep"
        /\ tasks[i].cancelled_in = "suspended" /\ tasks[i].state = "cancelled"
        /\ tasks[j].handler # "" /\ tasks[j].state = "done"
        /\ pc = "prompt"

C5_OnlyLiveInterruptsCancel ==
    \A i \in TaskIds :
        Finished(tasks[i]) => (tasks[i].state = "cancelled" <=> tasks[i].cancelled_in # "")

C5_Steps ==
    \* an interrupt with nothing unfinished changes nothing of the program
    /\ idle_sigint_at' # idle_sigint_at =>
          UNCHANGED <<aliases, _ignore_sigint, platform, pc, run_exc, tasks, _currently_running_task,
                      sigint_registered, close_calls, stdout, submitted>>
    \* a cancellation request goes to the slot's unfinished task and to nothing else
    /\ \A i \in TaskIds :
          ~tasks[i].must_cancel /\ tasks'[i].must_cancel =>
              /\ i = _currently_running_task /\ ~Finished(tasks[i])
              /\ tasks' = [tasks EXCEPT ![i] = tasks'[i]]
              /\ tasks'[i].state = tasks[i].state
              /\ UNCHANGED <<pc, run_exc, _currently_running_task, sigint_registered, close_calls,
                             stdout, submitted>>
    \* the loop outlives the cancellation
    /\ LoopResumes /\ tasks[_currently_running_task].state = "cancelled" => LoopGoesOnAfterBlank

\* C5: an interrupt cancels exactly the command that is unfinished when it
\* fires and never ends the loop; fired while no command is unfinished it
\* changes nothing, and a command is cancelled only by an interrupt that
\* fired during its own life.
C5_InterruptCancelsOnlyCurrent == []C5_OnlyLiveInterruptsCancel /\ [][C5_Steps]_vars

\* C5 witness: an interrupt arrived after the first command had been cancelled, and the
\* command submitted next ran to completion
C5_Witness ==
    /\ Len(tasks) = 2
    /\ idle_sigint_at = 1
    /\ tasks[1].state = "cancelled"
    /\ tasks[2].handler # "" /\ tasks[2].state = "done" /\ tasks[2].cancelled_in = ""

\* the handler of task t was called and raised an Exception
Raised(t) ==
    /\ t.handler # ""
    /\ Call(aliases, t.handler, t.called_args, LinesAt(t)).how = "raise"

C6_Caught ==
    \A i \in TaskIds :
        Raised(tasks[i]) =>
            LET r == Call(aliases, tasks[i].handler, tasks[i].called_args, LinesAt(tasks[i]))
            IN  /\ tasks[i].state = "done"
                /\ tasks[i].exc = ""
                /\ tasks[i].printed = Append(r.printed, "Command failed:  " \o r.text)

C6_LoopResumes == LoopResumes /\ Raised(tasks[_currently_running_task]) => LoopGoesOn

\* C6: when a handler, synchronous or a coroutine, raises an exception
\* other than the exit signal or a cancellation, the task ends normally
\* having printed, after the handler's own output, exactly one failure
\* message with the exception text, and the loop goes on to the next prompt.
C6_HandlerFailureIsCaught == []C6_Caught /\ [][C6_LoopResumes]_vars

\* C6 witness: a synchronous and an asynchronous handler have both failed and the loop
\* is at the prompt
C6_Witness ==
    /\ pc = "prompt"
    /\ \E i, j \in TaskIds :
          /\ tasks[i].handler = "do_add" /\ Raised(tasks[i])
          /\ tasks[j].handler = "do_sleep" /\ Raised(tasks[j])

\* the method a command name stands for, and its numbers of required and
\* optional parameters, counted on the declaration itself
AttrOf(command) == ResolvedAttr(aliases, command)

Declared(command) == AttrOf(command) \in DOMAIN Methods

NumRequired(command) ==
    LET ps == Methods[AttrOf(command)].params
    IN  Cardinality({i \in 1..Len(ps) : ps[i].default = NoDefault})

NumOptional(command) ==
    LET ps == Methods[AttrOf(command)].params
    IN  Cardinality({i \in 1..Len(ps) : ps[i].default # NoDefault})

ArityOk(t) ==
    /\ NumRequired(t.command) <= Len(t.args)
    /\ Len(t.args) <= NumRequired(t.command) + NumOptional(t.command)

UsageMessage(command) ==
    LET ga == _get_command_args(aliases, command)
    IN  "Bad command args. Usage: " \o _get_command_usage(aliases, command, ga.args, ga.kwargs)

\* what the arity check decides for task t
ArityVerdict(t) ==
    IF ArityOk(t)
    THEN t.handler = AttrOf(t.command) /\ t.called_args = t.args
    ELSE /\ t.handler = ""
         /\ t.printed = <<UsageMessage(t.command)>>
         /\ Finished(t) => t.state = "done" /\ t.exc = ""

\* task t was cancelled by an interrupt that fired before its first step
CancelledUnstarted(t) == t.cancelled_in = "pending"

\* C7 (as claimed): for every line naming a declared command, the handler
\* is invoked with the line's arguments if and only if their number n
\* satisfies r <= n <= r + k, and otherwise a usage message is printed and
\* the handler is not invoked.
C7_ArityDecidesEveryLine ==
    \A i \in TaskIds :
        Declared(tasks[i].command) /\ Finished(tasks[i]) => ArityVerdict(tasks[i])

C7_Checked ==
    \A i \in TaskIds :
        Declared(tasks[i].command) /\ tasks[i].state # "pending" =>
            IF CancelledUnstarted(tasks[i])
            THEN tasks[i].handler = "" /\ tasks[i].printed = <<>>
            ELSE ArityVerdict(tasks[i])

C7_LoopResumes ==
    /\ LoopResumes
    /\ Declared(tasks[_currently_running_task].command)
    /\ ~ArityOk(tasks[_currently_running_task])
    => IF CancelledUnstarted(tasks[_currently_running_task])
       THEN LoopGoesOnAfterBlank ELSE LoopGoesOn

\* C7 (amended): for every line naming a declared command whose task is not
\* cancelled by an interrupt before its first step, the handler is invoked
\* with the line's n arguments if and only if r <= n <= r + k, and otherwise
\* a usage message is printed, the handler is not invoked and the loop goes
\* on; a task cancelled before its first step invokes no handler and prints
\* no usage message, and the loop goes on after a blank line.
C7_ArityDecidesStartedTasks == []C7_Checked /\ [][C7_LoopResumes]_vars

\* C7 witness: add (r = 2, k = 1) was given 4 arguments and then 3
C7_Witness ==
    \E i, j \in TaskIds :
        /\ tasks[i].command = "add" /\ Len(tasks[i].args) = 4
        /\ tasks[i].handler = "" /\ tasks[i].printed # <<>>
        /\ tasks[j].command = "add" /\ Len(tasks[j].args) = 3
        /\ tasks[j].handler = "do_add"
        /\ pc = "prompt"

\* task t, dispatched under an alias, did what a task for `target` with the
\* same arguments does
SameAsTarget(t, target) ==
    LET ref == FirstStep(NewTask(target, t.args, t.line), aliases, LinesAt(t))
    IN  /\ InList(t.command, command_list(aliases))
        /\ InList(target, command_list(aliases))
        /\ t.handler = ref.handler
        /\ t.called_args = ref.called_args
        /\ t.printed = ref.printed
        /\ Finished(t) /\ t.cancelled_in = "" => t.state = ref.state /\ t.exc = ref.exc

Started(t) == t.state # "pending" /\ ~CancelledUnstarted(t)

C9_CommandsRunInLineOrder ==
    /\ \A i, j \in TaskIds :
          i < j => tasks[i].line < tasks[j].line /\ Finished(tasks[i])
    /\ \A i \in TaskIds :
          /\ tasks[i].line \in 1..Len(submitted)
          /\ shlex_split(submitted[tasks[i].line]).tokens = <<tasks[i].command>> \o tasks[i].args

\* C9 witness: two lines have each reached a handler, the second after a line that did not
C9_Witness ==
    \E i, j \in TaskIds :
        /\ i < j
        /\ tasks[i].handler # "" /\ tasks[j].handler # ""
        /\ tasks[j].line > tasks[i].line

\* task t is the exit command with no argument
IsExitCommand(t) == AttrOf(t.command) = "do_quit" /\ t.args = <<>>

\* task i has ended the loop: nothing was read or dispatched after it, and
\* once run() is over it has returned without raising, after teardown
EndsLoop(i) ==
    /\ tasks[i].handler = "do_quit"
    /\ tasks[i].exc = "ExitPromptException"
    /\ i = Len(tasks)
    /\ tasks[i].line = Len(submitted)
    /\ pc \in {"await", "returned"}
    /\ pc = "returned" => run_exc = "" /\ close_calls = 1 /\ ~sigint_registered

\* C10 (as claimed): dispatching the exit command (quit, or its alias exit)
\* ends the loop: no further line is read or dispatched, run() returns
\* without raising, and teardown has run.
C10_ExitCommandEndsLoop ==
    \A i \in TaskIds : IsExitCommand(tasks[i]) /\ Finished(tasks[i]) => EndsLoop(i)

C10_Ended ==
    \A i \in TaskIds :
        IsExitCommand(tasks[i]) /\ Finished(tasks[i]) =>
            IF CancelledUnstarted(tasks[i])
            THEN tasks[i].handler = "" /\ tasks[i].state = "cancelled"
            ELSE EndsLoop(i)

C10_LoopResumes ==
    LoopResumes /\ IsExitCommand(tasks[_currently_running_task]) =>
        IF CancelledUnstarted(tasks[_currently_running_task])
        THEN LoopGoesOnAfterBlank
        ELSE /\ pc' = "returned"
             /\ run_exc' = ""
             /\ close_calls' = close_calls + 1
             /\ ~sigint_registered'
             /\ UNCHANGED <<stdout, tasks, submitted>>

\* C10 (amended): dispatching the exit command (quit, or its alias exit,
\* with no argument) ends the loop unless an interrupt cancels its task
\* before the handler starts: no further line is read or dispatched, run()
\* returns without raising, and teardown has run; when the task is
\* cancelled before its first step the handler is not invoked and the loop
\* goes on after a blank line.
C10_StartedExitCommandEndsLoop == []C10_Ended /\ [][C10_LoopResumes]_vars

\* C10 witness: run() has returned after the alias exit, which followed another command
C10_Witness ==
    /\ pc = "returned"
    /\ Len(tasks) = 2
    /\ tasks[2].command = "exit"
    /\ tasks[2].handler = "do_quit"
    /\ close_calls = 1

\* run() registers the SIGINT handler under this condition
HandlesSigint == _ignore_sigint /\ platform # "win32"

\* C11: once the interrupt handler has been registered, every way run()
\* ends (end-of-input, exit, or an error at any later step) has run the
\* teardown: the handler is deregistered and the close hook has been called
\* exactly once, and never before the loop has stopped; the handler is
\* registered only when interrupt handling is configured and the platform
\* supports it.
C11_TeardownOnEveryExit ==
    /\ sigint_registered => HandlesSigint
    /\ pc \in {"init", "prompt", "await"} => close_calls = 0
    /\ pc \in {"returned", "raised"} /\ HandlesSigint =>
          ~sigint_registered /\ close_calls = 1

\* the names with a do_ method, and the names a line can be dispatched under
DiscoveredNames ==
    {n \in {StrOrder[i] : i \in 1..Len(StrOrder)} : (ATTR_START \o n) \in DOMAIN Methods}

DispatchableNames == DiscoveredNames \cup DOMAIN aliases

\* a line with a first token has just been read
ReadsTokens ==
    /\ submitted' # submitted
    /\ shlex_split(submitted'[Len(submitted')]).ok
    /\ shlex_split(submitted'[Len(submitted')]).tokens # <<>>

C12_Step ==
    ReadsTokens =>
        LET args == shlex_split(submitted'[Len(submitted')]).tokens IN
        IF args[1] \in DispatchableNames
        THEN /\ tasks' = Append(tasks, NewTask(args[1], Tail(args), Len(submitted')))
             /\ _currently_running_task' = Len(tasks')
             /\ pc' = "await"
             /\ UNCHANGED stdout
        ELSE /\ stdout' = Append(stdout, "Command " \o args[1] \o " not found!")
             /\ UNCHANGED <<tasks, _currently_running_task>>
             /\ LoopGoesOnAfterMessage

C12_OnlyDispatchable ==
    \A i \in TaskIds : tasks[i].command \in DispatchableNames

\* C12: a line with a first token is dispatched (a task is created for it
\* and put in the slot) if and only if that token is a discovered command
\* name or an alias name; for any other first token one "not found" message
\* is printed, no task is created, no handler runs and the loop goes on to
\* the next prompt.
C12_DispatchIffDispatchable == []C12_OnlyDispatchable /\ [][C12_Step]_vars

\* C12 witness: a line with an unknown first token was answered with the
\* message, and the alias line after it reached its handler
C12_Witness ==
    /\ Len(submitted) = 2
    /\ shlex_split(submitted[1]).tokens = <<"nope">>
    /\ stdout[1] = "Command nope not found!"
    /\ Len(tasks) = 1
    /\ tasks[1].command = "plus" /\ tasks[1].handler = "do_add" /\ tasks[1].line = 2

\* the prompt ends with end-of-input: the loop stops without having read a line
EndOfInput == pc = "prompt" /\ pc' # "prompt" /\ submitted' = submitted

C13_Returned ==
    pc = "returned" => run_exc = "" /\ close_calls = 1 /\ ~sigint_registered

C13_Step ==
    /\ EndOfInput =>
          /\ pc' = "returned"
          /\ run_exc' = ""
          /\ close_calls' = close_calls + 1
          /\ ~sigint_registered'
          /\ UNCHANGED <<tasks, _currently_running_task, stdout>>
    /\ pc = "returned" => UNCHANGED <<pc, tasks, _currently_running_task, submitted, stdout>>

\* C13: end-of-input at the prompt ends the loop cleanly: run() returns
\* without raising, the close hook has been called once and the interrupt
\* handler is deregistered, exactly as when run() returns after the exit
\* command, and nothing is read, dispatched or printed afterwards.
C13_EndOfInputEndsLoop == []C13_Returned /\ [][C13_Step]_vars

\* C13 witness: run() has returned on end-of-input after a command that is
\* not the exit command, with the interrupt handler it had registered
C13_Witness ==
    /\ pc = "returned"
    /\ HandlesSigint
    /\ Len(submitted) = 1
    /\ Len(tasks) = 1
    /\ tasks[1].handler = "do_add" /\ tasks[1].state = "done"
    /\ close_calls = 1

\* the usage string of canonical command c: its name, its aliases in sorted
\* order, then its required and its optional parameters
UsageOf(c) ==
    LET ps == Methods[ATTR_START \o c].params
        IsReq(q) == q.default = NoDefault
        IsOpt(q) == q.default # NoDefault
        req == SelectSeq(ps, IsReq)
        opt == SelectSeq(ps, IsOpt)
    IN  FormatStrip(Join("|", <<c>> \o Sorted({a \in DOMAIN aliases : aliases[a] = c})),
                    Join(" ", [k \in 1..Len(req) |-> "<" \o ParamStr(req[k]) \o ">"]),
                    Join(" ", [k \in 1..Len(opt) |-> "[" \o ParamStr(opt[k]) \o "]"]))

\* the canonical command a dispatchable name stands for
CanonicalOf(n) == IF n \in DOMAIN aliases THEN aliases[n] ELSE n

\* p is the listing help is to print: the header, then one row for each
\* canonical command in alphabetical order and none for an alias, every
\* usage string padded to one width w that no usage string of a
\* dispatchable name exceeds, followed by the docstring
HelpListing(p) ==
    LET cs == Sorted(DiscoveredNames) IN
    /\ Len(p) = 3 + Len(cs)
    /\ SubSeq(p, 1, 3) = <<"", doc_header, Repeat("=", Len(doc_header))>>
    /\ \A n \in DispatchableNames : CanonicalOf(n) \in DiscoveredNames
    /\ \E w \in 0..Len(p[4]) :
          /\ \A n \in DispatchableNames : Len(UsageOf(CanonicalOf(n))) <= w
          /\ \A k \in 1..Len(cs) :
                p[3 + k] = LJust(UsageOf(cs[k]), w) \o Methods[ATTR_START \o cs[k]].doc

\* C14: for every alias table, whenever the help handler has run it has
\* printed each canonical command exactly once, in alphabetical order, the
\* usage strings padded to one common width at least as long as the longest
\* usage string of a dispatchable name, with no row for an alias and with
\* the canonical name first and its aliases after it in sorted order.
C14_HelpListsEveryCommand ==
    \A i \in TaskIds : tasks[i].handler = "do_help" => HelpListing(tasks[i].printed)

\* the aliases whose target is not a discovered command, and the alias
\* table without them
DanglingNames == {a \in DOMAIN aliases : aliases[a] \notin DiscoveredNames}

WithoutDangling == [a \in DOMAIN aliases \ DanglingNames |-> aliases[a]]

\* task t did what its line does under alias table al
RunsAsUnder(t, al) ==
    LET ref == FirstStep(NewTask(t.command, t.args, t.line), al, LinesAt(t))
    IN  /\ t.handler = ref.handler
        /\ t.called_args = ref.called_args
        /\ t.printed = ref.printed
        /\ Finished(t) /\ t.cancelled_in = "" => t.state = "done" /\ t.exc = ref.exc

\* C15: a dangling alias fails lazily: every started command that is not
\* named by a dangling alias runs exactly as it does under the alias table
\* without the dangling aliases, and a failure for a missing method occurs
\* only in a task dispatched under a dangling alias.
C15_DanglingAliasFailsLazily ==
    \A i \in TaskIds :
        Started(tasks[i]) /\ tasks[i].command \notin DanglingNames =>
            /\ RunsAsUnder(tasks[i], WithoutDangling)
            /\ tasks[i].exc # "AttributeError"

\* the key binding clears the text typed at the prompt
ClearsLine ==
    \/ ~line_cleared /\ line_cleared'
    \/ current_buffer # <<>> /\ current_buffer' = <<>> /\ submitted' = submitted

C16_Step ==
    ClearsLine =>
        /\ current_buffer' = <<>>
        /\ UNCHANGED <<aliases, _ignore_sigint, platform, pc, run_exc, tasks,
                       _currently_running_task, sigint_registered, close_calls, stdout,
                       submitted, idle_sigint_at>>

\* C16: firing the clear-line key binding sets the input buffer to empty
\* and changes nothing else: the Running Task slot and every task keep
\* their state, nothing is cancelled or printed, and the loop stays at the
\* prompt.
C16_ClearLineChangesOnlyBuffer == [][C16_Step]_vars

\* C16 witness: the binding has cleared typed text after a command had run,
\* and the slot still holds that command's finished task
C16_Witness ==
    /\ line_cleared
    /\ current_buffer = <<>>
    /\ pc = "prompt"
    /\ _currently_running_task = 1
    /\ tasks[1].handler = "do_add" /\ tasks[1].state = "done"

\* the handler of task t has been called and is not a coroutine function
SyncHandled(t) == t.handler # "" /\ ~Methods[t.handler].coroutine

\* what a synchronous handler prints when it runs to its end
SyncOutput(t) ==
    LET r == Call(aliases, t.handler, t.called_args, LinesAt(t))
    IN  IF r.how = "raise" THEN Append(r.printed, "Command failed:  " \o r.text)
        ELSE r.printed

\* an interrupt was handled after the step of the slot's task and before
\* the loop resumed: it had arrived while the handler was executing
InterruptedInHandler ==
    /\ pc = "await"
    /\ Finished(tasks[_currently_running_task])
    /\ idle_sigint_at = Len(tasks)

\* C17 (as claimed): an interrupt that arrives while a synchronous handler
\* is executing does not abort it, no blank line is printed, and the loop
\* then reads the next line, for every synchronous command.
C17_SyncCommandThenNextLine ==
    [][LoopResumes /\ InterruptedInHandler /\ SyncHandled(tasks[_currently_running_task])
          => LoopGoesOn]_vars

C17_Completed ==
    \A i \in TaskIds :
        SyncHandled(tasks[i]) =>
            /\ tasks[i].state = "done"
            /\ ~tasks[i].must_cancel /\ tasks[i].cancelled_in = ""
            /\ tasks[i].printed = SyncOutput(tasks[i])

C17_Steps ==
    /\ \A i \in TaskIds : SyncHandled(tasks[i]) => tasks'[i] = tasks[i]
    /\ LoopResumes /\ SyncHandled(tasks[_currently_running_task]) =>
          IF tasks[_currently_running_task].exc = "ExitPromptException"
          THEN pc' = "returned" /\ run_exc' = "" /\ UNCHANGED stdout
          ELSE LoopGoesOn

\* C17 (amended): a synchronous handler runs inside one step of its task,
\* so an interrupt handled afterwards finds the task finished and changes
\* nothing: the command has run to completion with all its output, no
\* blank line is printed for it, and the loop then does what it does
\* without the interrupt: it reads the next line, or returns when the
\* handler raised the exit signal.
C17_InterruptAfterSyncHandlerIsNoOp == []C17_Completed /\ [][C17_Steps]_vars

\* C17 witness: the interrupt was handled after add had printed its sum and
\* before the loop resumed
C17_Witness ==
    /\ InterruptedInHandler
    /\ Len(tasks) = 1
    /\ tasks[1].handler = "do_add" /\ tasks[1].printed = <<"3">>
    /\ tasks[1].state = "done"

\* the handler of task t was called and raised the exit signal
RaisedExit(t) ==
    /\ t.handler # ""
    /\ Call(aliases, t.handler, t.called_args, LinesAt(t)).how = "exit"
    /\ t.state = "done" /\ t.exc = "ExitPromptException"

\* task t names quit or its alias with arguments quit does not take
QuitWithArguments(t) == AttrOf(t.command) = "do_quit" /\ t.args # <<>>

C18_NoExitWithoutHandler ==
    \A i \in TaskIds :
        /\ tasks[i].exc = "ExitPromptException" => RaisedExit(tasks[i])
        /\ QuitWithArguments(tasks[i]) /\ Started(tasks[i]) =>
              /\ tasks[i].handler = ""
              /\ tasks[i].exc = ""
              /\ tasks[i].printed = <<UsageMessage(tasks[i].command)>>

C18_Steps ==
    /\ LoopResumes /\ pc' = "returned" => RaisedExit(tasks[_currently_running_task])
    /\ LoopResumes /\ QuitWithArguments(tasks[_currently_running_task])
          /\ Started(tasks[_currently_running_task]) => LoopGoesOn
    /\ LoopResumes /\ tasks[_currently_running_task].state = "cancelled" =>
          LoopGoesOnAfterBlank

\* C18: the loop returns through the exit path only when the handler of
\* the slot's task was called and raised the exit signal; quit or exit
\* with arguments fails the arity check, prints the usage message, calls no
\* handler and the loop goes on; and a task that ends cancelled, quit
\* included, makes the loop print a blank line and go on.
C18_ExitOnlyFromInvokedHandler == []C18_NoExitWithoutHandler /\ [][C18_Steps]_vars

\* C18 witness: quit with an argument printed its usage, the quit after it
\* was cancelled before its first step, and the loop is at the prompt
C18_Witness ==
    /\ pc = "prompt"
    /\ Len(tasks) = 2
    /\ tasks[1].command = "quit" /\ tasks[1].args = <<"1">>
    /\ tasks[1].printed = <<"Bad command args. Usage: quit|exit">>
    /\ IsExitCommand(tasks[2]) /\ tasks[2].state = "cancelled"
    /\ tasks[2].handler = ""

====
